---- MODULE Spec2Model ----
(***************************************************************************)
(* The focus navigator of meeting_cost_clock (src/main.py): the grid of    *)
(* MyButton widgets kept by ClockApp, the focus position, the key handlers *)
(* (action_up/down/left/right/enter), change_button_focus, the mouse      *)
(* handlers of MyButton (on_enter, on_leave) and the one-second refreshes  *)
(* of Clock and Timer.                                                     *)
(*                                                                         *)
(* Python lists are 0-based and accept negative indices; TLA+ sequences    *)
(* are 1-based.  PyHas/PyPos translate a Python index.                     *)
(***************************************************************************)
EXTENDS Integers, Sequences, FiniteSets, TLC

\* Bound of the model: the grids explored have at most MaxCells buttons.
MaxCells == 4

\* A run of equal keys is counted up to MaxRun, one more than any column is
\* high: from there on the count no longer matters to a clamped index.
MaxRun == MaxCells + 1

VARIABLES
    _buttons,        \* ClockApp._buttons: columns of MyButton (ragged)
    _focus_index_x,  \* ClockApp._focus_index_x
    _focus_index_y,  \* ClockApp._focus_index_y
    status,          \* ClockApp.status (Reactive)
    _status,         \* ClockApp._status.value, the text the Status widget shows
    calls,           \* the invocations of button callbacks made so far
    interacted,      \* the buttons whose interact() the last handler called
    error,           \* the exception that ended the last handler, or None
    refreshed,       \* the widget whose refresh() the last handler was
    moved,           \* observer: change_button_focus has been called
    last,            \* observer: the last key handled
    run,             \* observer: the run of consecutive up (down) keys
    scn              \* observer: progress in the scenario of the shipped grid

vars == <<_buttons, _focus_index_x, _focus_index_y, status, _status, calls,
          interacted, error, refreshed, moved, last, run, scn>>

None == "None"
START == "START"
STOP == "STOP"

\* class Directions
UP == "up"
DOWN == "down"
LEFT == "left"
RIGHT == "right"
Directions == {UP, DOWN, LEFT, RIGHT}

ENTER == "enter"

\* a value that is no member of Directions
Undefined == "undefined"

-----------------------------------------------------------------------------
\* Python list indexing

\* seq[i] exists: Python accepts -len <= i < len and raises IndexError otherwise
PyHas(seq, i) == -Len(seq) <= i /\ i < Len(seq)

\* the 1-based place of seq[i]
PyPos(seq, i) == IF i >= 0 THEN i + 1 ELSE Len(seq) + i + 1

\* _buttons[x][y] exists
HasButton(grid, x, y) == PyHas(grid, x) /\ PyHas(grid[PyPos(grid, x)], y)

\* _buttons[x][y]
ButtonAt(grid, x, y) ==
    LET col == grid[PyPos(grid, x)] IN col[PyPos(col, y)]

\* _buttons[x][y].in_focus = value
SetInFocus(grid, x, y, value) ==
    LET cx == PyPos(grid, x)
        cy == PyPos(grid[cx], y)
    IN [grid EXCEPT ![cx][cy].in_focus = value]

\* the (x, y) of every button of the grid
Cells(grid) ==
    {c \in (0 .. Len(grid) - 1) \X (0 .. MaxCells - 1) :
        c[2] < Len(grid[c[1] + 1])}

-----------------------------------------------------------------------------
\* Construction

\* A button made with in_focus = Reactive(True).
MyButton_in_focus(text, callback, args) ==
    [text |-> text, in_focus |-> TRUE, callback |-> callback, args |-> args]

\* MyButton(text, callback, args); args is <<>> for None, <<list>> for a list
MyButton(text, callback, args) ==
    [text |-> text, in_focus |-> FALSE, callback |-> callback, args |-> args]

StartButton == MyButton(START, "watch_status", << <<"top_button">> >>)
StopButton == MyButton(STOP, None, <<>>)

\* The row counts of the grids explored: every non-empty sequence of
\* positive column heights with at most n buttons in all.
RECURSIVE Shapes(_)
Shapes(n) ==
    IF n = 0 THEN {<<>>}
    ELSE {<<>>} \cup
         UNION {{<<r>> \o s : s \in Shapes(n - r)} : r \in 1 .. n}

\* on_mount builds [[START], [STOP]]: the grid of shape <<1, 1>>.  The grids
\* explored repeat that layout: START buttons in the even columns, STOP
\* buttons in the odd ones.
GridOf(shape) ==
    [cx \in 1 .. Len(shape) |->
        [cy \in 1 .. shape[cx] |->
            IF (cx - 1) % 2 = 0 THEN StartButton ELSE StopButton]]

ShippedShape == <<1, 1>>

\* the scenario of the shipped grid, as keys
Scenario == <<DOWN, RIGHT, ENTER, LEFT, ENTER>>

Init ==
    /\ \E shape \in Shapes(MaxCells) \ {<<>>} :
          /\ _buttons = GridOf(shape)
          /\ scn = IF shape = ShippedShape THEN 0 ELSE -1
    /\ _focus_index_x = 0
    /\ _focus_index_y = 0
    /\ status = "--"
    /\ _status = "-"
    /\ calls = <<>>
    /\ interacted = {}
    /\ error = None
    /\ refreshed = None
    /\ moved = FALSE
    /\ last = None
    /\ run = [n |-> 0, x0 |-> 0, y0 |-> 0]

-----------------------------------------------------------------------------
\* Reactive attributes

\* self.status = value: the Reactive stores the value and, when it differs
\* from the stored one, runs watch_status, which copies it to _status.value.
\* The result is <<status, _status.value>>.
set_status(st, value) ==
    IF st[1] # value THEN <<value, value>> ELSE st

\* f"ERROR: Undefined {direction=}" for the value Undefined
ErrorText == "ERROR: Undefined direction='undefined'"

-----------------------------------------------------------------------------
\* change_button_focus

\* The UP branch without its clamp at row 0 (index -1 is the last button of
\* a Python list).
new_focus_index_up_unclamped ==
    <<_focus_index_x, _focus_index_y - 1>>

\* the UP branch
new_focus_index_up ==
    IF _focus_index_y <= 0
    THEN <<_focus_index_x, 0>>
    ELSE <<_focus_index_x, _focus_index_y - 1>>

\* The DOWN branch wrapping to row 0 at the last row instead of clamping.
new_focus_index_down_wrapping ==
    LET rows == Len(_buttons[PyPos(_buttons, _focus_index_x)])
    IN  IF _focus_index_y >= rows - 1
        THEN <<_focus_index_x, 0>>
        ELSE <<_focus_index_x, _focus_index_y + 1>>

\* the DOWN branch
new_focus_index_down ==
    LET rows == Len(_buttons[PyPos(_buttons, _focus_index_x)])
    IN  IF _focus_index_y >= rows - 1
        THEN <<_focus_index_x, rows - 1>>
        ELSE <<_focus_index_x, _focus_index_y + 1>>

\* the LEFT branch
new_focus_index_left ==
    IF _focus_index_x <= 0
    THEN <<0, _focus_index_y>>
    ELSE <<_focus_index_x - 1, _focus_index_y>>

\* the RIGHT branch
new_focus_index_right ==
    IF _focus_index_x <= Len(_buttons) - 1
    THEN <<Len(_buttons) - 1, _focus_index_y>>
    ELSE <<_focus_index_x + 1, _focus_index_y>>

\* The if/elif chain with an else branch that reports the error and leaves
\* the indices as they are.
new_focus_index_else_stays(direction) ==
    CASE direction = UP -> new_focus_index_up
      [] direction = DOWN -> new_focus_index_down
      [] direction = LEFT -> new_focus_index_left
      [] direction = RIGHT -> new_focus_index_right
      [] OTHER -> <<_focus_index_x, _focus_index_y>>

\* new_focus_index_x, new_focus_index_y after the if/elif chain
new_focus_index(direction) ==
    CASE direction = UP -> new_focus_index_up
      [] direction = DOWN -> new_focus_index_down
      [] direction = LEFT -> new_focus_index_left
      [] direction = RIGHT -> new_focus_index_right
      [] OTHER -> <<0, 0>>

\* The position is written before the flags: an IndexError of the second
\* flag write then leaves the new position behind.
change_button_focus_commit_first(direction, st) ==
    LET new == new_focus_index(direction)
        cleared == SetInFocus(_buttons, _focus_index_x, _focus_index_y, FALSE)
        st2 == IF direction \in Directions THEN st ELSE set_status(st, ErrorText)
    IN  /\ status' = st2[1]
        /\ _status' = st2[2]
        /\ _focus_index_x' = new[1]
        /\ _focus_index_y' = new[2]
        /\ IF HasButton(cleared, new[1], new[2])
           THEN /\ _buttons' = SetInFocus(cleared, new[1], new[2], TRUE)
                /\ error' = None
           ELSE /\ _buttons' = cleared
                /\ error' = "IndexError"

\* Every flag of the grid is cleared before the new button's flag is set,
\* instead of the previous button's flag alone.
change_button_focus_clear_all(direction, st) ==
    LET new == new_focus_index(direction)
        cleared == [cx \in 1 .. Len(_buttons) |->
                      [cy \in 1 .. Len(_buttons[cx]) |->
                          [_buttons[cx][cy] EXCEPT !.in_focus = FALSE]]]
        st2 == IF direction \in Directions THEN st ELSE set_status(st, ErrorText)
    IN  /\ status' = st2[1]
        /\ _status' = st2[2]
        /\ IF HasButton(cleared, new[1], new[2])
           THEN /\ _buttons' = SetInFocus(cleared, new[1], new[2], TRUE)
                /\ _focus_index_x' = new[1]
                /\ _focus_index_y' = new[2]
                /\ error' = None
           ELSE /\ _buttons' = cleared
                /\ UNCHANGED <<_focus_index_x, _focus_index_y>>
                /\ error' = "IndexError"

\* The new button's flag is set before the previous button's flag is
\* cleared.
change_button_focus_set_then_clear(direction, st) ==
    LET new == new_focus_index(direction)
        st2 == IF direction \in Directions THEN st ELSE set_status(st, ErrorText)
    IN  /\ status' = st2[1]
        /\ _status' = st2[2]
        /\ IF HasButton(_buttons, new[1], new[2])
           THEN /\ _buttons' = SetInFocus(
                                  SetInFocus(_buttons, new[1], new[2], TRUE),
                                  _focus_index_x, _focus_index_y, FALSE)
                /\ _focus_index_x' = new[1]
                /\ _focus_index_y' = new[2]
                /\ error' = None
           ELSE /\ UNCHANGED <<_buttons, _focus_index_x, _focus_index_y>>
                /\ error' = "IndexError"

\* change_button_focus(direction), entered with <<status, _status.value>> = st.
\* Line 171 clears the previous button's flag; line 172 raises IndexError
\* when _buttons[new x][new y] does not exist, and lines 173-174 are then
\* not reached.
change_button_focus(direction, st) ==
    LET previous_index_x == _focus_index_x
        previous_index_y == _focus_index_y
        new == new_focus_index(direction)
        cleared == SetInFocus(_buttons, previous_index_x, previous_index_y, FALSE)
        st2 == IF direction \in Directions THEN st ELSE set_status(st, ErrorText)
    IN  /\ status' = st2[1]
        /\ _status' = st2[2]
        /\ IF HasButton(cleared, new[1], new[2])
           THEN /\ _buttons' = SetInFocus(cleared, new[1], new[2], TRUE)
                /\ _focus_index_x' = new[1]
                /\ _focus_index_y' = new[2]
                /\ error' = None
           ELSE /\ _buttons' = cleared
                /\ UNCHANGED <<_focus_index_x, _focus_index_y>>
                /\ error' = "IndexError"

\* The handlers run while the application runs: an exception that leaves a
\* handler ends the application.
Running == error = None

action_up ==
    /\ Running
    /\ change_button_focus(UP, set_status(<<status, _status>>, "up-arrow"))
    /\ interacted' = {}
    /\ refreshed' = None
    /\ UNCHANGED calls

action_down ==
    /\ Running
    /\ change_button_focus(DOWN, set_status(<<status, _status>>, "down-arrow"))
    /\ interacted' = {}
    /\ refreshed' = None
    /\ UNCHANGED calls

action_left ==
    /\ Running
    /\ change_button_focus(LEFT, set_status(<<status, _status>>, "left-arrow"))
    /\ interacted' = {}
    /\ refreshed' = None
    /\ UNCHANGED calls

action_right ==
    /\ Running
    /\ change_button_focus(RIGHT, set_status(<<status, _status>>, "right-arrow"))
    /\ interacted' = {}
    /\ refreshed' = None
    /\ UNCHANGED calls

\* MyButton.interact: the body of the coroutine, run on the invocations cs
interact(button, cs) ==
    IF button.callback # None
    THEN IF button.args = <<>>
         THEN Append(cs, [callback |-> button.callback, args |-> <<>>])
         ELSE Append(cs, [callback |-> button.callback, args |-> button.args[1]])
    ELSE cs

\* The first button in focus, in grid order, instead of the one at the
\* focus position.
enter_button_first_in_focus ==
    LET focused == {c \in Cells(_buttons) :
                       ButtonAt(_buttons, c[1], c[2]).in_focus}
    IN  IF focused = {} THEN <<_focus_index_x, _focus_index_y>>
        ELSE CHOOSE c \in focused :
                \A d \in focused :
                    c[1] < d[1] \/ (c[1] = d[1] /\ c[2] <= d[2])

\* action_enter calling the button's callback itself, with no test for None:
\* calling None raises TypeError.
action_enter_unchecked_call ==
    LET st == set_status(<<status, _status>>, "enter button")
        button == ButtonAt(_buttons, _focus_index_x, _focus_index_y)
    IN  /\ Running
        /\ status' = st[1]
        /\ _status' = st[2]
        /\ interacted' = {}
        /\ calls' = IF button.in_focus THEN interact(button, calls) ELSE calls
        /\ error' = IF button.in_focus /\ button.callback = None
                    THEN "TypeError" ELSE None
        /\ refreshed' = None
        /\ UNCHANGED <<_buttons, _focus_index_x, _focus_index_y>>

\* action_enter clearing the flag of the button it has activated.
action_enter_unfocus ==
    LET st == set_status(<<status, _status>>, "enter button")
        button == <<_focus_index_x, _focus_index_y>>
        focused == ButtonAt(_buttons, button[1], button[2]).in_focus
    IN  /\ Running
        /\ status' = st[1]
        /\ _status' = st[2]
        /\ interacted' = IF focused THEN {button} ELSE {}
        /\ _buttons' = SetInFocus(_buttons, button[1], button[2], FALSE)
        /\ calls' = calls
        /\ refreshed' = None
        /\ UNCHANGED <<_focus_index_x, _focus_index_y, error>>

\* action_enter, line 194: the (x, y) of the button looked up
enter_button == <<_focus_index_x, _focus_index_y>>

\* action_enter.  button.interact() is called and not awaited: the call
\* makes a coroutine object, which is dropped, and the body of interact
\* never runs, so no callback is invoked.
action_enter ==
    LET st == set_status(<<status, _status>>, "enter button")
        button == enter_button
    IN  /\ Running
        /\ status' = st[1]
        /\ _status' = st[2]
        /\ interacted' = IF ButtonAt(_buttons, button[1], button[2]).in_focus
                         THEN {button} ELSE {}
        /\ calls' = calls
        /\ refreshed' = None
        /\ UNCHANGED <<_buttons, _focus_index_x, _focus_index_y, error>>

-----------------------------------------------------------------------------
\* Observers of the keys handled

ObserveRun(key) ==
    IF key \in {UP, DOWN}
    THEN IF last = key
         THEN [run EXCEPT !.n = IF run.n < MaxRun THEN run.n + 1 ELSE MaxRun]
         ELSE [n |-> 1, x0 |-> _focus_index_x, y0 |-> _focus_index_y]
    ELSE [n |-> 0, x0 |-> 0, y0 |-> 0]

ObserveScenario(key) ==
    IF scn >= 0 /\ scn < Len(Scenario) /\ Scenario[scn + 1] = key
    THEN scn + 1
    ELSE -1

Observe(key) ==
    /\ moved' = (moved \/ key # ENTER)
    /\ last' = key
    /\ run' = ObserveRun(key)
    /\ scn' = ObserveScenario(key)

-----------------------------------------------------------------------------
\* Events: the keys bound by on_load, and the mouse over a button

KeyUp == action_up /\ Observe(UP)

KeyDown == action_down /\ Observe(DOWN)

KeyLeft == action_left /\ Observe(LEFT)

KeyRight == action_right /\ Observe(RIGHT)

KeyEnter == action_enter /\ Observe(ENTER)

\* MyButton.on_enter of the button at c
on_enter(c) ==
    /\ Running
    /\ _buttons' = SetInFocus(_buttons, c[1], c[2], TRUE)
    /\ interacted' = {}
    /\ refreshed' = None
    /\ scn' = -1
    /\ UNCHANGED <<_focus_index_x, _focus_index_y, status, _status, calls,
                   error, moved, last, run>>

\* MyButton.on_leave of the button at c
on_leave(c) ==
    /\ Running
    /\ _buttons' = SetInFocus(_buttons, c[1], c[2], FALSE)
    /\ interacted' = {}
    /\ refreshed' = None
    /\ scn' = -1
    /\ UNCHANGED <<_focus_index_x, _focus_index_y, status, _status, calls,
                   error, moved, last, run>>

MouseEnter == \E c \in Cells(_buttons) : on_enter(c)

MouseLeave == \E c \in Cells(_buttons) : on_leave(c)

Next == KeyUp \/ KeyDown \/ KeyLeft \/ KeyRight \/ KeyEnter
        \/ MouseEnter \/ MouseLeave

Spec == Init /\ [][Next]_vars

\* A refresh that draws the whole layout again and, with it, every button
\* out of focus.
refresh_clearing_focus(widget) ==
    /\ Running
    /\ refreshed' = widget
    /\ interacted' = {}
    /\ _buttons' = [cx \in 1 .. Len(_buttons) |->
                      [cy \in 1 .. Len(_buttons[cx]) |->
                          [_buttons[cx][cy] EXCEPT !.in_focus = FALSE]]]
    /\ UNCHANGED <<_focus_index_x, _focus_index_y, status, _status,
                   calls, error, moved, last, run, scn>>

\* A refresh that mounts the layout again: the focus indices are back at
\* (0,0), as on_mount sets them.
refresh_remounting(widget) ==
    /\ Running
    /\ refreshed' = widget
    /\ interacted' = {}
    /\ _focus_index_x' = 0
    /\ _focus_index_y' = 0
    /\ UNCHANGED <<_buttons, status, _status, calls, error, moved, last, run,
                   scn>>

\* Clock.refresh and Timer.refresh, run every second by the intervals that
\* Clock.on_mount and Timer.on_mount set: the widget is drawn again, its
\* render reading the time of day and nothing of the application.
refresh(widget) ==
    /\ Running
    /\ refreshed' = widget
    /\ interacted' = {}
    /\ UNCHANGED <<_buttons, _focus_index_x, _focus_index_y, status, _status,
                   calls, error, moved, last, run, scn>>

ClockTick == refresh("Clock")

TimerTick == refresh("Timer")

\* change_button_focus called with a value that is no member of Directions.
\* No handler of the application makes this call.
CallUndefined ==
    /\ Running
    /\ change_button_focus(Undefined, <<status, _status>>)
    /\ interacted' = {}
    /\ refreshed' = None
    /\ UNCHANGED calls
    /\ Observe(Undefined)

\* the keys and the two intervals
NextTicks == KeyUp \/ KeyDown \/ KeyLeft \/ KeyRight \/ KeyEnter
             \/ ClockTick \/ TimerTick

SpecTicks == Init /\ [][NextTicks]_vars

\* the keys, the mouse and the two intervals
NextAll == KeyUp \/ KeyDown \/ KeyLeft \/ KeyRight \/ KeyEnter
           \/ MouseEnter \/ MouseLeave \/ ClockTick \/ TimerTick

SpecAll == Init /\ [][NextAll]_vars

\* the keys, and change_button_focus called with an undefined direction
NextDirect == KeyUp \/ KeyDown \/ KeyLeft \/ KeyRight \/ KeyEnter
              \/ CallUndefined

SpecDirect == Init /\ [][NextDirect]_vars

\* the directional keys alone
NextMoves == KeyUp \/ KeyDown \/ KeyLeft \/ KeyRight

SpecMoves == Init /\ [][NextMoves]_vars

-----------------------------------------------------------------------------
\* Properties

\* the (x, y) of the buttons whose in_focus flag is set
FocusedCells ==
    {c \in Cells(_buttons) : ButtonAt(_buttons, c[1], c[2]).in_focus}

Position == <<_focus_index_x, _focus_index_y>>

\* the number of buttons of the column the focus is in
RowsInColumn == Len(_buttons[PyPos(_buttons, _focus_index_x)])

\* C1: on every grid, once a directional key has been handled (and with
\* directional keys alone), exactly one button has its in_focus flag set.
C1_ExactlyOneFocused ==
    last # None => Cardinality(FocusedCells) = 1

\* C2: in every reachable state the focus position is that of an existing
\* button: 0 <= x < columns and 0 <= y < rows of column x.
C2_PositionValid ==
    /\ 0 <= _focus_index_x /\ _focus_index_x < Len(_buttons)
    /\ 0 <= _focus_index_y /\ _focus_index_y < Len(_buttons[_focus_index_x + 1])

\* C2's case at its hardest: a move whose target does not exist has raised,
\* from a row other than the first.
C2_Witness ==
    /\ error = "IndexError"
    /\ _focus_index_y > 0

\* C3: every directional key completes without an error and with its three
\* effects: the previous button's flag cleared, the new button's flag set,
\* the position moved to the new index.
C3_MoveTotal ==
    [][NextMoves =>
        /\ error' = None
        /\ Position' = new_focus_index(last')
        /\ ButtonAt(_buttons', _focus_index_x', _focus_index_y').in_focus
        /\ Position' # Position =>
              ~ButtonAt(_buttons', _focus_index_x, _focus_index_y).in_focus]_vars

\* C4: ENTER on a focused button with a bound callback and arguments A
\* invokes that callback with A, once.
C4_EnterInvokesOnce ==
    [][(/\ KeyEnter
        /\ ButtonAt(_buttons, _focus_index_x, _focus_index_y).in_focus
        /\ ButtonAt(_buttons, _focus_index_x, _focus_index_y).callback # None)
       => calls' = interact(
                      ButtonAt(_buttons, _focus_index_x, _focus_index_y), calls)
      ]_vars

\* C5: the scenario on the shipped grid: DOWN stays at (0,0); RIGHT moves to
\* (1,0) and clears the flag of (0,0); ENTER there changes neither position
\* nor flags, invokes nothing and raises nothing; LEFT returns to (0,0);
\* ENTER there invokes watch_status("top_button").
C5_Scenario ==
    /\ scn = 1 => Position = <<0, 0>>
    /\ scn = 2 => Position = <<1, 0>> /\ ~ButtonAt(_buttons, 0, 0).in_focus
    /\ scn = 3 => /\ error = None
                  /\ Position = <<1, 0>>
                  /\ FocusedCells = {<<1, 0>>}
                  /\ calls = <<>>
    /\ scn = 4 => Position = <<0, 0>>
    /\ scn = 5 => calls = <<[callback |-> "watch_status",
                             args |-> <<"top_button">>]>>

\* C6: a handler calls interact() on no button but the one at the focus
\* position, and a step invokes at most one callback, that of the button at
\* the focus position.
C6_ActivationTargetsFocus ==
    [][/\ interacted' \subseteq {Position'}
       /\ \/ calls' = calls
          \/ calls' = interact(
                ButtonAt(_buttons, _focus_index_x, _focus_index_y), calls)
      ]_vars

\* C6's case: ENTER has called interact() while a second button was in
\* focus too.
C6_Witness ==
    /\ interacted # {}
    /\ Cardinality(FocusedCells) > 1

\* C7: during a run of n consecutive UP keys from (x0, y0), x stays x0 and
\* y is max(y0 - n, 0): one less per key until 0, and 0 from then on.
C7_UpRun ==
    last = UP =>
        /\ error = None
        /\ _focus_index_x = run.x0
        /\ _focus_index_y = IF run.y0 - run.n > 0 THEN run.y0 - run.n ELSE 0

\* C7's case: a run of UP keys from row 2 that reached row 0 and stayed.
C7_Witness ==
    /\ last = UP
    /\ run.y0 = 2
    /\ run.n = 3
    /\ _focus_index_y = 0

\* C8: during a run of n consecutive DOWN keys from (x0, y0), x stays x0
\* and y is min(y0 + n, rows - 1) for the rows of column x0: it reaches the
\* last row, stays there and never passes it.
C8_DownRun ==
    last = DOWN =>
        /\ error = None
        /\ _focus_index_x = run.x0
        /\ _focus_index_y = IF run.y0 + run.n < RowsInColumn - 1
                            THEN run.y0 + run.n ELSE RowsInColumn - 1

\* C8's case: a run of DOWN keys from row 0 of a column of two buttons that
\* reached the last row and stayed.
C8_Witness ==
    /\ last = DOWN
    /\ run.y0 = 0
    /\ run.n = 3
    /\ RowsInColumn = 2
    /\ _focus_index_y = 1

\* C9: RIGHT moves the position to the last column and keeps y.
C9_RightToLastColumn ==
    [][KeyRight =>
        /\ _focus_index_x <= Len(_buttons) - 1
        /\ _focus_index_x' = Len(_buttons) - 1
        /\ _focus_index_y' = _focus_index_y]_vars

\* C10: LEFT moves the position to column max(x - 1, 0) and keeps y.
C10_LeftOneColumn ==
    [][KeyLeft =>
        /\ _focus_index_x' = (IF _focus_index_x - 1 > 0
                              THEN _focus_index_x - 1 ELSE 0)
        /\ _focus_index_y' = _focus_index_y]_vars

\* ENTER is handled with the button at the focus position in focus and
\* bound to no callback
EnterOnUnbound ==
    /\ KeyEnter
    /\ ButtonAt(_buttons, _focus_index_x, _focus_index_y).in_focus
    /\ ButtonAt(_buttons, _focus_index_x, _focus_index_y).callback = None

\* C11, as stated: ENTER on a focused button with no bound callback does not
\* fail and changes neither the position, nor a flag, nor the displayed
\* status.
C11_EnterUnboundNoEffect ==
    [][EnterOnUnbound =>
        /\ error' = None
        /\ UNCHANGED <<_focus_index_x, _focus_index_y, _buttons, _status>>]_vars

\* C11, amended: ENTER on a focused button with no bound callback does not
\* fail, invokes nothing and changes neither the position nor a flag; the
\* status and the displayed status become "enter button".
C11_EnterUnboundOnlyStatus ==
    [][EnterOnUnbound =>
        /\ error' = None
        /\ UNCHANGED <<_focus_index_x, _focus_index_y, _buttons, calls>>
        /\ status' = "enter button"
        /\ _status' = "enter button"]_vars

\* C11's case: ENTER was the last key, on a focused STOP button.
C11_Witness ==
    /\ last = ENTER
    /\ interacted = {Position}
    /\ ButtonAt(_buttons, _focus_index_x, _focus_index_y).callback = None
    /\ _status = "enter button"

\* C12, as stated: an in_focus flag is written by a move alone; the mouse
\* over a button, ENTER and the intervals change no flag.
C12_FlagsWrittenByMoveOnly ==
    [][_buttons' # _buttons => NextMoves]_vars

\* C12, amended: an in_focus flag is written by a move and by the button's
\* own on_enter and on_leave alone; ENTER (with its status update) and the
\* intervals change no flag.
C12_FlagsWrittenByMoveOrMouse ==
    [][/\ _buttons' # _buttons => (NextMoves \/ MouseEnter \/ MouseLeave)
       /\ (KeyEnter \/ ClockTick \/ TimerTick) => _buttons' = _buttons]_vars

\* C12's case: a refresh has just run while two buttons were in focus, one
\* of them by the mouse, and both still are.
C12_Witness ==
    /\ refreshed # None
    /\ Cardinality(FocusedCells) >= 2

\* C13: change_button_focus with a value outside Directions, from any
\* position the keys reach, raises nothing, moves the position to (0,0),
\* clears the flag of the button at the previous position, sets the flag of
\* the button at (0,0) and sets the status to the error text.
C13_UndefinedResets ==
    [][CallUndefined =>
        /\ error' = None
        /\ _focus_index_x' = 0
        /\ _focus_index_y' = 0
        /\ ButtonAt(_buttons', 0, 0).in_focus
        /\ Position # <<0, 0>> =>
              ~ButtonAt(_buttons', _focus_index_x, _focus_index_y).in_focus
        /\ status' = ErrorText
        /\ _status' = ErrorText]_vars

\* C13's case: the call with the undefined direction was the last one, on a
\* grid with more than one button, and the focus is at (0,0).
C13_Witness ==
    /\ last = Undefined
    /\ Cardinality(Cells(_buttons)) > 1
    /\ Position = <<0, 0>>
    /\ FocusedCells = {<<0, 0>>}
    /\ status = ErrorText

\* C14: a directional key changes the flag of no button but the one at the
\* previous position and the one at the new position.
C14_MoveTouchesTwoFlags ==
    [][NextMoves =>
        \A c \in Cells(_buttons) :
            c \notin {Position, Position'} =>
                ButtonAt(_buttons', c[1], c[2]).in_focus
                    = ButtonAt(_buttons, c[1], c[2]).in_focus]_vars

\* C14's case: after a directional key, the button at the position is in
\* focus and so is a second one, which the mouse had put in focus.
C14_Witness ==
    /\ last \in Directions
    /\ error = None
    /\ Position \in FocusedCells
    /\ Cardinality(FocusedCells) >= 2

\* C15: the position is (0,0) until change_button_focus is first called, a
\* step that changes it is a directional key, and ENTER changes neither the
\* position nor any in_focus flag, whether it calls interact() or not.
C15_PositionChangedByMovesOnly ==
    /\ [](~moved => Position = <<0, 0>>)
    /\ [][/\ Position' # Position => NextMoves
          /\ KeyEnter => UNCHANGED <<_focus_index_x, _focus_index_y, _buttons>>
         ]_vars

\* C15's case: ENTER was the last key, away from (0,0), on a button in
\* focus, which still is.
C15_Witness ==
    /\ last = ENTER
    /\ Position # <<0, 0>>
    /\ interacted = {Position}
    /\ Position \in FocusedCells

\* C16: a refresh of the Clock or of the Timer, wherever it falls among the
\* keys, changes neither the focus position nor an in_focus flag, nor the
\* status, the callbacks invoked or the error: the navigator is where the
\* keys alone have brought it.
C16_TicksLeaveNavigator ==
    [][(ClockTick \/ TimerTick) =>
        UNCHANGED <<_buttons, _focus_index_x, _focus_index_y, status, _status,
                    calls, error>>]_vars

\* C16's case: a refresh has just run after the keys have moved the focus
\* away from (0,0), and the focus is still there.
C16_Witness ==
    /\ refreshed # None
    /\ moved
    /\ Position # <<0, 0>>
    /\ FocusedCells = {Position}

\* C17, as stated: in the initial state no button is in focus although the
\* position is (0,0); until the first directional key the position stays
\* (0,0), ENTER calls interact() on no button and no callback is invoked.
C17_ActivatableOnlyAfterMove ==
    /\ FocusedCells = {}
    /\ [](~moved => /\ Position = <<0, 0>>
                    /\ interacted = {}
                    /\ calls = <<>>)

\* C17, amended: in the initial state no button is in focus although the
\* position is (0,0); until the first directional key the position stays
\* (0,0), no callback is invoked, a flag is set by a mouse enter alone, and
\* ENTER calls interact() on no button but the one at (0,0), and on that
\* one only when the mouse has put it in focus.
C17_ActivatableAfterMoveOrMouse ==
    /\ FocusedCells = {}
    /\ [](~moved => Position = <<0, 0>> /\ calls = <<>>)
    /\ [][~moved' =>
            /\ FocusedCells' \subseteq FocusedCells \/ MouseEnter
            /\ interacted' \subseteq (FocusedCells \cap {<<0, 0>>})]_vars

\* C17's case: ENTER was handled before any directional key and found no
\* button in focus.
C17_Witness ==
    /\ ~moved
    /\ last = ENTER
    /\ FocusedCells = {}
    /\ interacted = {}

\* C18: a directional key whose new index is the position it starts from
\* (UP in row 0, DOWN in the last row, LEFT in column 0, RIGHT in the last
\* column) leaves the flag of the button there set.
C18_SelfLoopKeepsFocus ==
    [][(NextMoves /\ new_focus_index(last') = Position) =>
        /\ error' = None
        /\ Position' = Position
        /\ ButtonAt(_buttons', _focus_index_x, _focus_index_y).in_focus]_vars

\* C18's case: a second UP in row 0, which cannot but loop, and the button
\* there is in focus.
C18_Witness ==
    /\ last = UP
    /\ run.y0 = 0
    /\ run.n = 2
    /\ Position \in FocusedCells

====
